---- MODULE Spec2Model ----
(***************************************************************************)
(* A model of the xgboost_mnist notebook: the libsvm encoder and the       *)
(* sharded upload (to_libsvm, upload_to_s3), the download wrapper          *)
(* (download_from_s3), the training-job submission and hosting cells, and  *)
(* the batched evaluation (do_predict, batch_predict, the evaluation cell, *)
(* error_rate).                                                            *)
(*                                                                         *)
(* Text is a sequence of one-character strings. A Python number is a       *)
(* record: [kind |-> "int", n |-> k] or [kind |-> "float", u |-> k],       *)
(* where a float is held exactly in units of 10^-8 (every value of the    *)
(* dataset is a multiple of 1/256 = 390625 * 10^-8).                       *)
(***************************************************************************)
EXTENDS Integers, Sequences, FiniteSets, TLC

VARIABLES
    pc,         \* position of the running cell / function
    labels,     \* the labels handed to the running function (Python numbers)
    vectors,    \* the feature vectors handed to the running function
    f,          \* the file object to_libsvm writes (its bytes, as text)
    i,          \* upload_to_s3: the loop variable i
    s3,         \* upload_to_s3: the objects written, shard index -> text
    error,      \* the exception that ended the run ("none" while it runs)
    log,        \* what the code printed that the claims are about
    dl_calls,   \* download_from_s3: the outcome of each download_file call
    local_test, \* the local file 'mnist.local.test'
    mode,       \* "cell": the evaluation cells run; "call": batch_predict alone
    oracle,     \* the endpoint's model: submitted line -> its prediction
    faults,     \* how many responses of the endpoint broke its contract
    calls,      \* invoke_endpoint calls so far: lines sent, predictions returned
    batch_size, \* batch_predict: batch_size
    test_data,  \* evaluation cell: test_data (batch_predict: data)
    cell_labels,\* evaluation cell: labels (floats, in units of 10^-8)
    offset,     \* batch_predict: the loop variable offset
    arrs,       \* batch_predict: arrs
    preds,      \* evaluation cell: preds
    rate,       \* evaluation cell: the error rate printed, [num, den]
    test_error, \* error_rate: error (a percentage), [num, den]
    confusions, \* error_rate: confusions, row -> column -> count
    job,        \* the training service: job -> TrainingJobStatus
    failure_reason, \* the training service: FailureReason of the distributed job
    endpoint,   \* the hosting service: EndpointStatus
    sm_calls,   \* the calls issued on the sagemaker client sm, in order
    waited,     \* the waiter's wait() has returned
    status,     \* the cells' variable status
    message,    \* the training cell's variable message
    heap,       \* the dict and list objects of the kernel, by address
    clock,      \* the second gmtime() returns
    role,       \* role = get_execution_role()
    container,  \* container = get_image_uri(region, 'xgboost')
    bucket_path,\* bucket_path
    common_training_params,    \* address of the dict, 0 while undefined
    single_machine_job_name,
    single_machine_job_params, \* address of the dict, 0 while undefined
    distributed_job_name,
    distributed_job_params     \* address of the dict, 0 while undefined

dataVars == <<labels, vectors>>
dlVars == <<dl_calls, local_test, log>>
evalVars == <<mode, oracle, faults, calls, batch_size, test_data, cell_labels,
              offset, arrs, preds, rate, test_error, confusions>>
jobVars == <<job, failure_reason, endpoint, sm_calls, waited, status, message>>
paramVars == <<heap, clock, role, container, bucket_path, common_training_params,
               single_machine_job_name, single_machine_job_params,
               distributed_job_name, distributed_job_params>>
vars == <<pc, labels, vectors, f, i, s3, error, dlVars, evalVars, jobVars, paramVars>>

(***************************************************************************)
(* Bounds of the model.                                                    *)
(***************************************************************************)
MaxCodecLen == 3      \* examples in one to_libsvm call (codec specification)
MaxVecLen == 3        \* features of one example
MaxN == 11            \* examples of an uploaded partition
MaxL == 4             \* records of the evaluated shard
MaxB == 3             \* batch sizes tried besides the cell's own
MaxFaults == 2        \* responses of the endpoint that break its contract
MaxStamps == 2        \* seconds the clock shows while the descriptor cells run

(***************************************************************************)
(* Python numbers and their text.                                          *)
(***************************************************************************)
UNIT == 100000000     \* 10^8: a float is held in units of 10^-8

PyInt(k) == [kind |-> "int", n |-> k]
PyFloat(k) == [kind |-> "float", u |-> k]

\* The value of a number in units of 10^-8 (Python compares int and float by value).
Units(x) == IF x.kind = "int" THEN x.n * UNIT ELSE x.u

PyEq(x, y) == Units(x) = Units(y)

\* numpy float32 pixel p/256 as the Python float tolist() gives.
Pixel(p) == PyFloat(p * 390625)

Digits == <<"0", "1", "2", "3", "4", "5", "6", "7", "8", "9">>
DigitSet == {Digits[k] : k \in 1..10}
DigitChar(d) == Digits[d + 1]
DigitVal(c) == CHOOSE d \in 0..9 : Digits[d + 1] = c

RECURSIVE FormatInt(_)
\* str() of a non-negative int.
FormatInt(n) ==
    IF n < 10 THEN <<DigitChar(n)>>
    ELSE FormatInt(n \div 10) \o <<DigitChar(n % 10)>>

RECURSIVE StripZeros(_)
StripZeros(s) ==
    IF Len(s) > 1 /\ s[Len(s)] = "0" THEN StripZeros(SubSeq(s, 1, Len(s) - 1))
    ELSE s

Pow10(k) == CASE k = 0 -> 1 [] k = 1 -> 10 [] k = 2 -> 100 [] k = 3 -> 1000
              [] k = 4 -> 10000 [] k = 5 -> 100000 [] k = 6 -> 1000000
              [] k = 7 -> 10000000 [] k = 8 -> 100000000

\* repr() of a non-negative float that is 0 or at least 10^-4: the integer part,
\* a point, and the shortest fraction (at least one digit).
FormatFloat(u) ==
    FormatInt(u \div UNIT) \o <<".">>
        \o StripZeros([k \in 1..8 |-> DigitChar(((u % UNIT) \div Pow10(8 - k)) % 10)])

\* '{}'.format(x)
Format(x) == IF x.kind = "int" THEN FormatInt(x.n) ELSE FormatFloat(x.u)

RECURSIVE Join(_, _)
\* sep.join(parts)
Join(parts, sep) ==
    IF Len(parts) = 0 THEN <<>>
    ELSE IF Len(parts) = 1 THEN parts[1]
    ELSE parts[1] \o <<sep>> \o Join(Tail(parts), sep)

RECURSIVE Split(_, _)
\* s.split(sep) for a one-character sep: always at least one part.
Split(s, sep) ==
    IF \A k \in 1..Len(s) : s[k] # sep THEN <<s>>
    ELSE LET at == CHOOSE k \in 1..Len(s) :
                       s[k] = sep /\ \A j \in 1..(k - 1) : s[j] # sep
         IN <<SubSeq(s, 1, at - 1)>> \o Split(SubSeq(s, at + 1, Len(s)), sep)

Whitespace == {" ", "\n"}

RECURSIVE Strip(_)
\* s.strip()
Strip(s) ==
    IF Len(s) > 0 /\ s[1] \in Whitespace THEN Strip(Tail(s))
    ELSE IF Len(s) > 0 /\ s[Len(s)] \in Whitespace THEN Strip(SubSeq(s, 1, Len(s) - 1))
    ELSE s

IsDigits(s) == \A k \in 1..Len(s) : s[k] \in DigitSet

RECURSIVE ParseInt(_)
ParseInt(s) ==
    IF Len(s) = 0 THEN 0
    ELSE 10 * ParseInt(SubSeq(s, 1, Len(s) - 1)) + DigitVal(s[Len(s)])

\* float(s) for the decimal texts of the model: [ok, u], u in units of 10^-8;
\* ok = FALSE is Python's ValueError (the empty string, a stray character).
ParseFloat(s) ==
    LET parts == Split(s, ".")
        whole == parts[1]
        frac == IF Len(parts) = 2 THEN parts[2] ELSE <<>>
    IN IF /\ Len(parts) <= 2
          /\ IsDigits(whole) /\ IsDigits(frac)
          /\ Len(whole) + Len(frac) > 0
          /\ Len(frac) <= 8
       THEN [ok |-> TRUE,
             u |-> ParseInt(whole) * UNIT + ParseInt(frac) * Pow10(8 - Len(frac))]
       ELSE [ok |-> FALSE, u |-> 0]

(***************************************************************************)
(* to_libsvm                                                               *)
(***************************************************************************)
Min(a, b) == IF a < b THEN a ELSE b

\* A slip in the index: 0-based feature positions.
PairZeroBased(k, el) == FormatInt(k - 1) \o <<":">> \o Format(el)

\* '{}:{}'.format(i + 1, el) for i, el in enumerate(vec): k is i + 1.
Pair(k, el) == FormatInt(k) \o <<":">> \o Format(el)

\* A sparse encoding: the features whose value is zero are left out.
RecordSparse(label, vec) ==
    LET kept == SelectSeq([k \in 1..Len(vec) |-> k],
                          LAMBDA k : Units(vec[k]) # 0)
    IN Format(label) \o <<" ">>
         \o Join([j \in 1..Len(kept) |-> Pair(kept[j], vec[kept[j]])], " ")

\* '{} {}'.format(label, ' '.join([...]))
Record(label, vec) ==
    Format(label) \o <<" ">> \o Join([k \in 1..Len(vec) |-> Pair(k, vec[k])], " ")

\* What to_libsvm writes to f: the records of zip(labels, values), newline-joined.
to_libsvm(ls, vs) ==
    Join([k \in 1..Min(Len(ls), Len(vs)) |-> Record(ls[k], vs[k])], "\n")

(***************************************************************************)
(* The codec specification: one call of to_libsvm on a small dataset. The  *)
(* first example has any label and any vector over ValueSet; the labels of *)
(* the following examples run on through the classes and their vectors are *)
(* the first one's, rotated.                                               *)
(***************************************************************************)
LabelSet == {PyInt(k) : k \in 0..9}
ValueSet == {PyInt(0), Pixel(0), Pixel(1), Pixel(128), Pixel(255)}

SeqsOf(S, m) == [1..m -> S]

\* The vector v turned left by r places: the examples of a dataset differ.
Rotate(v, r) == [k \in 1..Len(v) |-> v[((k - 1 + r) % Len(v)) + 1]]

Idle == <<>>

\* The parts of the notebook a specification does not run stay as they are here.
IdleDownload == dl_calls = Idle /\ local_test = Idle /\ log = Idle

IdleEval ==
    /\ mode = Idle /\ oracle = Idle /\ faults = 0 /\ calls = Idle
    /\ batch_size = 0 /\ test_data = Idle /\ cell_labels = Idle /\ offset = 0
    /\ arrs = Idle /\ preds = Idle /\ rate = Idle /\ test_error = Idle
    /\ confusions = Idle

\* No job and no endpoint created, no call issued on the sagemaker client.
IdleJobs ==
    /\ job = [single |-> "NotCreated", distributed |-> "NotCreated"]
    /\ failure_reason = "none" /\ endpoint = "NotCreated" /\ sm_calls = <<>>
    /\ waited = FALSE /\ status = "none" /\ message = "none"

\* No descriptor built: the cells that build them have not run.
IdleParams ==
    /\ heap = <<>> /\ clock = 0
    /\ role = "none" /\ container = "none" /\ bucket_path = "none"
    /\ common_training_params = 0
    /\ single_machine_job_name = "none" /\ single_machine_job_params = 0
    /\ distributed_job_name = "none" /\ distributed_job_params = 0

InitCodec ==
    /\ pc = "codec_start"
    /\ \E n \in 0..MaxCodecLen, m \in 0..MaxVecLen :
          /\ \E first \in LabelSet :
                labels = [k \in 1..n |-> PyInt((first.n + k - 1) % 10)]
          /\ \E base \in SeqsOf(ValueSet, m) :
                vectors = [k \in 1..n |-> Rotate(base, k - 1)]
    /\ f = Idle
    /\ i = 0
    /\ s3 = Idle
    /\ error = "none"
    /\ IdleDownload
    /\ IdleEval
    /\ IdleJobs
    /\ IdleParams

CodecWrite ==
    /\ pc = "codec_start"
    /\ f' = to_libsvm(labels, vectors)
    /\ pc' = "codec_done"
    /\ UNCHANGED <<dataVars, i, s3, error, dlVars, evalVars, jobVars, paramVars>>

NextCodec == CodecWrite

SpecCodec == InitCodec /\ [][NextCodec]_vars

(***************************************************************************)
(* Decoding, as the evaluation cell reads a shard back.                    *)
(***************************************************************************)
\* payload = f.read().strip(); payload.split('\n')
PayloadLines(text) == Split(Strip(text), "\n")

\* float(line.split(' ')[0])
DecodeLabel(line) == ParseFloat(Split(line, " ")[1])

\* The tokens of a line after its label (empty tokens are no tokens).
FeatureTokens(line) == SelectSeq(Tail(Split(line, " ")), LAMBDA t : t # <<>>)

\* Token k is 'k:value': its index is k and value parses to the float value.
TokenDecodesTo(tok, k, el) ==
    LET kv == Split(tok, ":")
    IN /\ Len(kv) = 2
       /\ IsDigits(kv[1]) /\ Len(kv[1]) > 0 /\ ParseInt(kv[1]) = k
       /\ ParseFloat(kv[2]).ok
       /\ ParseFloat(kv[2]).u = Units(el)

\* The line decodes to the example (label, vec): same label, same features in
\* the same order, same length.
LineDecodesTo(line, label, vec) ==
    /\ DecodeLabel(line).ok
    /\ DecodeLabel(line).u = Units(label)
    /\ Len(FeatureTokens(line)) = Len(vec)
    /\ \A k \in 1..Len(vec) : TokenDecodesTo(FeatureTokens(line)[k], k, vec[k])

\* C7: every example written by to_libsvm decodes, from its own line of the
\* written text, to its original label and its original feature vector (same
\* values, same order, same length).
C7_RoundTrip ==
    pc = "codec_done" =>
        \A k \in 1..Len(labels) :
            /\ k <= Len(PayloadLines(f))
            /\ LineDecodesTo(PayloadLines(f)[k], labels[k], vectors[k])

\* Two examples were written, the first with label 3 and an all-zero vector of
\* full length, and the second line decodes to the second example.
C7_Witness ==
    /\ pc = "codec_done"
    /\ Len(labels) = 2
    /\ labels[1] = PyInt(3)
    /\ Len(vectors[1]) = MaxVecLen
    /\ \A k \in 1..Len(vectors[1]) : vectors[1][k] = PyInt(0)
    /\ Len(vectors[2]) > 0
    /\ LineDecodesTo(PayloadLines(f)[1], PyInt(3), vectors[1])

\* The lines of a text as written: split on newline, nothing stripped.
WrittenLines(text) == Split(text, "\n")

\* The characters of a text.
Chars(text) == {text[k] : k \in 1..Len(text)}

\* C12: the blob to_libsvm writes for n examples (n = 0 and n = 1 included)
\* holds each record on one line of its own, the evaluation cell's decode
\* (strip, then split on newline) counts n lines in it, and no newline
\* follows the last record.
C12_LineCount ==
    pc = "codec_done" =>
        /\ Len(PayloadLines(f)) = Len(labels)
        /\ \A k \in 1..Len(labels) : "\n" \notin Chars(WrittenLines(f)[k])
        /\ (f # <<>> => f[Len(f)] # "\n")

\* The same count for a blob of at least one example.
C12_NonEmptyLineCount ==
    (pc = "codec_done" /\ Len(labels) >= 1) =>
        /\ Len(PayloadLines(f)) = Len(labels)
        /\ Len(WrittenLines(f)) = Len(labels)
        /\ f[Len(f)] # "\n"

\* The blob of no example is empty, and its decode counts one empty line.
C12_EmptyBlobOneLine ==
    (pc = "codec_done" /\ Len(labels) = 0) =>
        /\ f = <<>>
        /\ PayloadLines(f) = << <<>> >>

\* The text of token k of a record line: 'index:value' split at the colon.
PairText(line, k) == Split(Split(line, " ")[k + 1], ":")

\* C15: the record of an example with m features is the label followed by
\* exactly m space-separated 'index:value' pairs whose indices run 1, 2, ..., m
\* in this order, pair k carrying the k-th value as format() prints it; a
\* zero-valued feature has its pair like any other.
C15_DenseRecord ==
    pc = "codec_done" =>
        \A k \in 1..Len(labels) :
            LET line == WrittenLines(f)[k]
                vec == vectors[k]
                m == Len(vec)
            IN /\ Split(line, " ")[1] = Format(labels[k])
               /\ Len(FeatureTokens(line)) = m
               /\ Len(Split(line, " ")) = (IF m = 0 THEN 2 ELSE m + 1)
               /\ \A j \in 1..m :
                     /\ Len(PairText(line, j)) = 2
                     /\ PairText(line, j)[1] = FormatInt(j)
                     /\ PairText(line, j)[2] = Format(vec[j])
                     /\ (Units(vec[j]) = 0 =>
                            PairText(line, j)[2] \in {<<"0">>, <<"0", ".", "0">>})

\* A record of full length was written whose first feature is the integer 0,
\* whose last is the float 0.0 and which has a non-zero feature between them.
C15_Witness ==
    /\ pc = "codec_done"
    /\ Len(labels) >= 1
    /\ Len(vectors[1]) = MaxVecLen
    /\ vectors[1][1] = PyInt(0)
    /\ vectors[1][MaxVecLen] = Pixel(0)
    /\ \E j \in 1..MaxVecLen : Units(vectors[1][j]) # 0
    /\ PairText(WrittenLines(f)[1], 1) = <<FormatInt(1), <<"0">> >>

(***************************************************************************)
(* upload_to_s3                                                            *)
(***************************************************************************)
num_partition == 5

\* Python's s[a:b] for 0 <= a <= b (0-based, end excluded, clamped to len).
Slice(s, a, b) == SubSeq(s, Min(a, Len(s)) + 1, Min(b, Len(s)))

\* int(len(labels)/num_partition)
partition_bound(ls) == Len(ls) \div num_partition

\* A slip in the bounds: the vectors sliced one place further than the labels.
ShardBlobMisaligned(ls, vs, k) ==
    to_libsvm(Slice(ls, k * partition_bound(ls), (k + 1) * partition_bound(ls)),
              Slice(vs, k * partition_bound(ls) + 1, (k + 1) * partition_bound(ls) + 1))

\* A different rule: the last shard takes the remainder too.
ShardBlobWithRemainder(ls, vs, k) ==
    IF k = num_partition - 1
    THEN to_libsvm(Slice(ls, k * partition_bound(ls), Len(ls)),
                   Slice(vs, k * partition_bound(ls), Len(vs)))
    ELSE to_libsvm(Slice(ls, k * partition_bound(ls), (k + 1) * partition_bound(ls)),
                   Slice(vs, k * partition_bound(ls), (k + 1) * partition_bound(ls)))

\* to_libsvm(f, labels[i*pb:(i+1)*pb], vectors[i*pb:(i+1)*pb])
ShardBlob(ls, vs, k) ==
    to_libsvm(Slice(ls, k * partition_bound(ls), (k + 1) * partition_bound(ls)),
              Slice(vs, k * partition_bound(ls), (k + 1) * partition_bound(ls)))

\* A partition of n examples: labels run through the classes from a, example j
\* has the one-pixel vector <<(j + b)/256>>, so no two examples are equal.
InitUpload ==
    /\ pc = "upload_loop"
    /\ \E n \in 0..MaxN, a \in 0..9, b \in {0, 100} :
          /\ labels = [j \in 1..n |-> PyInt((a + j) % 10)]
          /\ vectors = [j \in 1..n |-> <<Pixel(j + b)>>]
    /\ f = Idle
    /\ i = 0
    /\ s3 = Idle
    /\ error = "none"
    /\ IdleDownload
    /\ IdleEval
    /\ IdleJobs
    /\ IdleParams

\* One iteration of the loop: encode shard i and write it (write_to_s3 returns).
UploadShard ==
    /\ pc = "upload_loop"
    /\ i < num_partition
    /\ f' = ShardBlob(labels, vectors, i)
    /\ s3' = (i :> f') @@ s3
    /\ i' = i + 1
    /\ pc' = IF i + 1 = num_partition THEN "upload_done" ELSE "upload_loop"
    /\ UNCHANGED <<dataVars, error, dlVars, evalVars, jobVars, paramVars>>

\* One iteration in which write_to_s3 raises: the error leaves upload_to_s3.
UploadRaise ==
    /\ pc = "upload_loop"
    /\ i < num_partition
    /\ f' = ShardBlob(labels, vectors, i)
    /\ pc' = "upload_raised"
    /\ error' = "ClientError"
    /\ UNCHANGED <<dataVars, i, s3, dlVars, evalVars, jobVars, paramVars>>

NextUpload == UploadShard \/ UploadRaise

SpecUpload == InitUpload /\ [][NextUpload]_vars

\* The examples a written object holds, one per line (an empty object holds none).
ShardLines(k) == IF s3[k] = <<>> THEN <<>> ELSE Split(s3[k], "\n")

\* How often example j is found in the written objects.
Occurrences(j) ==
    Cardinality({<<k, p>> \in (DOMAIN s3) \X (1..Len(labels)) :
                    /\ p <= Len(ShardLines(k))
                    /\ LineDecodesTo(ShardLines(k)[p], labels[j], vectors[j])})

RECURSIVE SumLines(_)
SumLines(k) == IF k < 0 THEN 0
               ELSE (IF k \in DOMAIN s3 THEN Len(ShardLines(k)) ELSE 0) + SumLines(k - 1)

\* C1: every written shard k holds exactly the examples at positions
\* [k*floor(N/K), (k+1)*floor(N/K)), in order, each label with its own vector;
\* when all K are written every example before K*floor(N/K) is in exactly one
\* shard and the last N mod K examples are in none.
C1_ShardContents ==
    LET q == Len(labels) \div num_partition
    IN /\ \A k \in DOMAIN s3 :
             /\ Len(ShardLines(k)) = q
             /\ \A p \in 1..q :
                    LineDecodesTo(ShardLines(k)[p], labels[k * q + p], vectors[k * q + p])
       /\ pc = "upload_done" =>
             /\ DOMAIN s3 = 0..(num_partition - 1)
             /\ \A j \in 1..Len(labels) :
                    Occurrences(j) = IF j <= num_partition * q THEN 1 ELSE 0

\* All five shards of an 11-example partition are written: two each, one dropped.
C1_Witness ==
    /\ pc = "upload_done"
    /\ Len(labels) = 11
    /\ DOMAIN s3 = 0..4
    /\ Occurrences(11) = 0
    /\ Occurrences(10) = 1

\* C2: when upload_to_s3 has written all K shards, they hold K * floor(N/K)
\* examples in all: 2 per shard and none dropped for N = 10, 2 per shard and
\* one dropped for N = 11.
C2_TotalEncoded ==
    pc = "upload_done" =>
        /\ SumLines(num_partition - 1) = num_partition * (Len(labels) \div num_partition)
        /\ Len(labels) \in {10, 11} =>
              /\ \A k \in DOMAIN s3 : Len(ShardLines(k)) = 2
              /\ Len(labels) - SumLines(num_partition - 1) = (IF Len(labels) = 10 THEN 0 ELSE 1)

\* A 10-example partition is fully written: ten examples encoded in all.
C2_Witness ==
    /\ pc = "upload_done"
    /\ Len(labels) = 10
    /\ SumLines(num_partition - 1) = 10

(***************************************************************************)
(* download_from_s3                                                        *)
(***************************************************************************)
\* The names the notebook's import statements bind.
ImportedNames == {"os", "boto3", "re", "copy", "time", "gmtime", "strftime",
                  "get_execution_role", "pickle", "gzip", "numpy", "urllib",
                  "json", "struct", "io", "get_image_uri", "sys", "plt"}

\* What one download_file call can meet: the object is read, the object is not
\* there (ClientError 404), or another client error (403).
StorageOutcomes == {"ok", "404", "403"}

NoFile == [exists |-> FALSE, text |-> <<>>]
FileOf(text) == [exists |-> TRUE, text |-> text]

\* s3.Bucket(bucket).download_file(key, filename), outside any try.
DownloadFirst ==
    /\ pc = "dl_first"
    /\ \E o \in StorageOutcomes :
          /\ dl_calls' = Append(dl_calls, o)
          /\ local_test' = IF o = "ok" THEN FileOf(s3[0]) ELSE local_test
          /\ pc' = IF o = "ok" THEN "dl_try" ELSE "raised"
          /\ error' = IF o = "ok" THEN error ELSE "ClientError:" \o o
    /\ UNCHANGED <<dataVars, f, i, s3, log, evalVars, jobVars, paramVars>>

\* The handler of the try: the except clause names botocore, which must be bound
\* for the clause to match at all; 404 is logged, anything else is raised again.
Handler(o) ==
    IF "botocore" \notin ImportedNames THEN [pc |-> "raised", error |-> "NameError", log |-> <<>>]
    ELSE IF o = "404"
         THEN [pc |-> "dl_returned", error |-> "none", log |-> <<"The object does not exist">>]
         ELSE [pc |-> "raised", error |-> "ClientError:" \o o, log |-> <<>>]

\* try: s3.Bucket(bucket).download_file(key, 'mnist.local.test') except ...
DownloadTry ==
    /\ pc = "dl_try"
    /\ \E o \in StorageOutcomes :
          /\ dl_calls' = Append(dl_calls, o)
          /\ local_test' = IF o = "ok" THEN FileOf(s3[0]) ELSE local_test
          /\ pc' = IF o = "ok" THEN "dl_returned" ELSE Handler(o).pc
          /\ error' = IF o = "ok" THEN error ELSE Handler(o).error
          /\ log' = IF o = "ok" THEN log ELSE log \o Handler(o).log
    /\ UNCHANGED <<dataVars, f, i, s3, evalVars, jobVars, paramVars>>

(***************************************************************************)
(* The scoring endpoint (outside the notebook).                            *)
(***************************************************************************)
PredSet == {3 * UNIT, 7 * UNIT}

\* One prediction per submitted line, in order.
HonestPreds(payload) ==
    LET ls == Split(payload, "\n") IN [k \in 1..Len(ls) |-> oracle[ls[k]]]

\* The response body: the predictions as floats, comma-separated.
Body(ps) == Join([k \in 1..Len(ps) |-> FormatFloat(ps[k])], ",")

\* What invoke_endpoint can do with a payload: answer as agreed, answer with one
\* prediction too few or one too many, or raise.
EndpointResponses(payload) ==
    LET h == HonestPreds(payload)
    IN {[kind |-> "honest", got |-> Len(h), body |-> Body(h)]}
       \cup (IF faults < MaxFaults
             THEN {[kind |-> "short", got |-> Len(h) - 1,
                    body |-> Body(SubSeq(h, 1, Len(h) - 1))],
                   [kind |-> "long", got |-> Len(h) + 1,
                    body |-> Body(Append(h, h[Len(h)]))],
                   [kind |-> "error", got |-> 0, body |-> <<>>]}
             ELSE {})

(***************************************************************************)
(* do_predict, batch_predict                                               *)
(***************************************************************************)
\* payload = '\n'.join(data)
Payload(batch) == Join(batch, "\n")

\* preds = [float(num) for num in result.split(',')]: ok = FALSE is ValueError.
do_predict(body) ==
    LET toks == Split(body, ",")
    IN [ok |-> \A k \in 1..Len(toks) : ParseFloat(toks[k]).ok,
        preds |-> [k \in 1..Len(toks) |-> ParseFloat(toks[k]).u]]

\* A slip in the end of the slice: one record too many, sent again next time.
BatchOverlapping(data, off, size) == Slice(data, off, Min(off + size + 1, Len(data)))

\* data[offset:min(offset+batch_size, items)]
Batch(data, off, size) == Slice(data, off, Min(off + size, Len(data)))

\* A slip in the order: the new predictions put before the old.
ExtendInFront(old, new) == new \o old

\* arrs.extend(...)
Extend(old, new) == old \o new

\* One iteration of batch_predict's loop: one do_predict call.
BatchCall ==
    /\ pc = "bp_loop"
    /\ offset < Len(test_data)
    /\ LET batch == Batch(test_data, offset, batch_size)
       IN \E r \in EndpointResponses(Payload(batch)) :
             /\ calls' = Append(calls, [sent |-> Len(batch), got |-> r.got,
                                          kind |-> r.kind, batch |-> batch])
             /\ faults' = IF r.kind = "honest" THEN faults ELSE faults + 1
             /\ IF r.kind = "error"
                THEN /\ pc' = "raised"
                     /\ error' = "EndpointError"
                     /\ UNCHANGED <<arrs, offset>>
                ELSE IF ~do_predict(r.body).ok
                THEN /\ pc' = "raised"
                     /\ error' = "ValueError"
                     /\ UNCHANGED <<arrs, offset>>
                ELSE /\ arrs' = Extend(arrs, do_predict(r.body).preds)
                     /\ offset' = offset + batch_size
                     /\ UNCHANGED <<pc, error>>
    /\ UNCHANGED <<paramVars, jobVars, dataVars, f, i, s3, dlVars, mode, oracle, batch_size, test_data,
                   cell_labels, preds, rate, test_error, confusions>>

\* The loop is over: return(arrs), to the evaluation cell or to the caller.
BatchReturn ==
    /\ pc = "bp_loop"
    /\ offset >= Len(test_data)
    /\ preds' = arrs
    /\ pc' = IF mode = "cell" THEN "rate" ELSE "call_done"
    /\ UNCHANGED <<paramVars, jobVars, dataVars, f, i, s3, error, dlVars, mode, oracle, faults, calls,
                   batch_size, test_data, cell_labels, offset, arrs, rate,
                   test_error, confusions>>

(***************************************************************************)
(* The evaluation cell and error_rate                                      *)
(***************************************************************************)
\* with open(file_name) ...: payload; labels; test_data; then batch_predict starts.
EvalRead ==
    /\ pc = "dl_returned"
    /\ IF ~local_test.exists
       THEN /\ pc' = "raised"
            /\ error' = "FileNotFoundError"
            /\ UNCHANGED <<test_data, cell_labels>>
       ELSE LET lines == PayloadLines(local_test.text)
            IN IF \A k \in 1..Len(lines) : DecodeLabel(lines[k]).ok
               THEN /\ cell_labels' = [k \in 1..Len(lines) |-> DecodeLabel(lines[k]).u]
                    /\ test_data' = lines
                    /\ pc' = "bp_loop"
                    /\ UNCHANGED error
               ELSE /\ pc' = "raised"
                    /\ error' = "ValueError"
                    /\ UNCHANGED <<test_data, cell_labels>>
    /\ UNCHANGED <<paramVars, jobVars, dataVars, f, i, s3, dlVars, mode, oracle, faults, calls,
                   batch_size, offset, arrs, preds, rate, test_error, confusions>>

\* sum(1 for i in range(len(preds)) if preds[i]!=labels[i]) / float(len(preds))
InlineRate(ps, ls) ==
    IF Len(ps) > Len(ls) THEN [raises |-> "IndexError", num |-> 0, den |-> 0]
    ELSE IF Len(ps) = 0 THEN [raises |-> "ZeroDivisionError", num |-> 0, den |-> 0]
    ELSE [raises |-> "none",
          num |-> Cardinality({k \in 1..Len(ps) : ps[k] # ls[k]}),
          den |-> Len(ps)]

\* The print of the error rate.
EvalRate ==
    /\ pc = "rate"
    /\ IF InlineRate(preds, cell_labels).raises # "none"
       THEN /\ pc' = "raised"
            /\ error' = InlineRate(preds, cell_labels).raises
            /\ UNCHANGED rate
       ELSE /\ rate' = [num |-> InlineRate(preds, cell_labels).num,
                        den |-> InlineRate(preds, cell_labels).den]
            /\ pc' = "error_rate"
            /\ UNCHANGED error
    /\ UNCHANGED <<paramVars, jobVars, dataVars, f, i, s3, dlVars, mode, oracle, faults, calls,
                   batch_size, test_data, cell_labels, offset, arrs, preds,
                   test_error, confusions>>

\* numpy.sum(predictions == labels): elementwise for equal lengths and when one
\* side has one element (broadcast); for other lengths numpy either gives the
\* scalar False (sum 0) or raises ValueError, by its version.
NumpyEqSum(ps, ls) ==
    IF Len(ps) = Len(ls)
    THEN {[ok |-> TRUE, n |-> Cardinality({k \in 1..Len(ps) : ps[k] = ls[k]})]}
    ELSE IF Len(ps) = 1
    THEN {[ok |-> TRUE, n |-> Cardinality({k \in 1..Len(ls) : ps[1] = ls[k]})]}
    ELSE IF Len(ls) = 1
    THEN {[ok |-> TRUE, n |-> Cardinality({k \in 1..Len(ps) : ps[k] = ls[1]})]}
    ELSE {[ok |-> TRUE, n |-> 0], [ok |-> FALSE, n |-> 0]}

\* numpy.zeros([10, 10], numpy.int32)
Zeros == [p \in 0..9 |-> [a \in 0..9 |-> 0]]

\* A slip in the axes: actual as the row, predicted as the column.
IncrementTransposed(conf, predicted, actual) ==
    [conf EXCEPT ![actual \div UNIT][predicted \div UNIT] = @ + 1]

\* confusions[int(predicted), int(actual)] += 1
Increment(conf, predicted, actual) ==
    [conf EXCEPT ![predicted \div UNIT][actual \div UNIT] = @ + 1]

RECURSIVE ConfusionLoop(_, _, _, _)
\* for predicted, actual in zip(predictions, labels): from pair k on.
ConfusionLoop(conf, ps, ls, k) ==
    IF k > Min(Len(ps), Len(ls)) THEN conf
    ELSE ConfusionLoop(Increment(conf, ps[k], ls[k]), ps, ls, k + 1)

\* 100.0 - (100 * float(correct) / float(total)), as a fraction.
ErrorPercent(correct, total) == [num |-> 100 * total - 100 * correct, den |-> total]

\* test_error, confusions = error_rate(numpy.asarray(preds), numpy.asarray(labels))
ErrorRate ==
    /\ pc = "error_rate"
    /\ \E c \in NumpyEqSum(preds, cell_labels) :
          IF c.ok
          THEN /\ test_error' = ErrorPercent(c.n, Len(preds))
               /\ confusions' = ConfusionLoop(Zeros, preds, cell_labels, 1)
               /\ pc' = "eval_done"
               /\ UNCHANGED error
          ELSE /\ pc' = "raised"
               /\ error' = "ValueError"
               /\ UNCHANGED <<test_error, confusions>>
    /\ UNCHANGED <<paramVars, jobVars, dataVars, f, i, s3, dlVars, mode, oracle, faults, calls,
                   batch_size, test_data, cell_labels, offset, arrs, preds, rate>>

(***************************************************************************)
(* The evaluation specification: the shard is downloaded and evaluated     *)
(* ("cell"), or batch_predict is called on a list of records ("call").     *)
(***************************************************************************)
EvalLabelSet == {PyInt(3), PyInt(7)}

\* The batch sizes tried: 1..MaxB, and the evaluation cell's own 100.
BatchSizes == (1..MaxB) \cup {100}

InitEval ==
    /\ \E n \in 0..MaxL :
          /\ labels \in SeqsOf(EvalLabelSet, n)
          /\ vectors = [j \in 1..n |-> <<Pixel(j)>>]
    /\ oracle \in [{Record(labels[j], vectors[j]) : j \in 1..Len(labels)} -> PredSet]
    /\ batch_size \in BatchSizes
    /\ mode \in {"cell", "call"}
    /\ pc = IF mode = "cell" THEN "dl_first" ELSE "bp_loop"
    /\ s3 = IF mode = "cell" THEN (0 :> to_libsvm(labels, vectors)) ELSE Idle
    /\ test_data = IF mode = "cell" THEN Idle
                   ELSE [j \in 1..Len(labels) |-> Record(labels[j], vectors[j])]
    /\ f = Idle /\ i = 0 /\ error = "none"
    /\ dl_calls = <<>> /\ local_test = NoFile /\ log = <<>>
    /\ faults = 0 /\ calls = <<>> /\ cell_labels = Idle /\ offset = 0
    /\ arrs = <<>> /\ preds = Idle /\ rate = Idle /\ test_error = Idle
    /\ confusions = Idle
    /\ IdleJobs
    /\ IdleParams

NextEval ==
    \/ DownloadFirst
    \/ DownloadTry
    \/ EvalRead
    \/ BatchCall
    \/ BatchReturn
    \/ EvalRate
    \/ ErrorRate

SpecEval == InitEval /\ [][NextEval]_vars

(***************************************************************************)
(* Claims on the evaluation.                                               *)
(***************************************************************************)
\* batch_predict has returned its list.
BatchReturned == pc \in {"call_done", "rate", "error_rate", "eval_done"}

\* The inline error rate was printed: the evaluation pass did not raise.
PassCompleted == pc \in {"error_rate", "eval_done"}

CeilDiv(a, b) == (a + b - 1) \div b

\* C3: with an endpoint that answers one prediction per line in order,
\* batch_predict on L records with batch size B makes ceil(L/B) calls and
\* returns L predictions, the one at position j being that of record j; for
\* L = 0 it makes no call and returns the empty list.
C3_BatchPredict ==
    (BatchReturned /\ faults = 0) =>
        /\ Len(calls) = CeilDiv(Len(test_data), batch_size)
        /\ Len(preds) = Len(test_data)
        /\ \A j \in 1..Len(test_data) : preds[j] = oracle[test_data[j]]
        /\ Len(test_data) = 0 => (calls = <<>> /\ preds = <<>>)

\* batch_predict returned four predictions from two calls (batches of 3 and 1),
\* not all predictions alike.
C3_Witness ==
    /\ pc = "call_done"
    /\ faults = 0
    /\ Len(test_data) = 4
    /\ batch_size = 3
    /\ Len(calls) = 2
    /\ calls[2].sent = 1
    /\ preds[3] # preds[4]

RECURSIVE SentInOrder(_)
\* The records of the first k calls, one after the other in the order sent.
SentInOrder(k) == IF k = 0 THEN <<>> ELSE SentInOrder(k - 1) \o calls[k].batch

\* C14: the batches batch_predict sends are the contiguous slices
\* data[offset:min(offset + B, L)] for offset = 0, B, 2B, ...: none is empty,
\* none is longer than B, all but possibly the last have exactly B records, and
\* put end to end in the order sent they are the input, each record sent once.
C14_ContiguousBatches ==
    LET L == Len(test_data)
        B == batch_size
    IN /\ \A k \in 1..Len(calls) :
             LET off == (k - 1) * B
             IN /\ off < L
                /\ calls[k].batch = SubSeq(test_data, off + 1, Min(off + B, L))
                /\ Len(calls[k].batch) >= 1
                /\ Len(calls[k].batch) <= B
                /\ (off + B <= L => Len(calls[k].batch) = B)
                /\ (k < Len(calls) => Len(calls[k].batch) = B)
       /\ SentInOrder(Len(calls)) = SubSeq(test_data, 1, Min(Len(calls) * B, L))
       /\ (BatchReturned => SentInOrder(Len(calls)) = test_data)

\* batch_predict returned after sending four distinct records in batches of
\* three and of one.
C14_Witness ==
    /\ BatchReturned
    /\ Len(test_data) = 4
    /\ batch_size = 3
    /\ Len(calls) = 2
    /\ Len(calls[1].batch) = 3
    /\ calls[2].batch = <<test_data[4]>>
    /\ \A j, k \in 1..4 : j # k => test_data[j] # test_data[k]

RECURSIVE SentBefore(_)
\* The lines submitted by the calls before call k.
SentBefore(k) == IF k <= 1 THEN 0 ELSE calls[k - 1].sent + SentBefore(k - 1)

\* C4: a response whose number of predictions differs from the number of
\* lines submitted ends the evaluation with an error at that batch: it is the
\* last call made, nothing of it is appended, and the run has raised.
C4_MismatchRaises ==
    \A k \in 1..Len(calls) :
        (calls[k].kind # "error" /\ calls[k].got # calls[k].sent) =>
            /\ pc = "raised"
            /\ k = Len(calls)
            /\ Len(arrs) = SentBefore(k)

\* C5: when an evaluation pass completes without raising, there are as many
\* predictions as labels and preds[j] is the prediction for record j.
C5_PredsMatchLabels ==
    PassCompleted =>
        /\ Len(preds) = Len(cell_labels)
        /\ \A j \in 1..Len(preds) : preds[j] = oracle[test_data[j]]

RECURSIVE SumRow(_, _)
SumRow(row, a) == IF a < 0 THEN 0 ELSE row[a] + SumRow(row, a - 1)

RECURSIVE SumCells(_, _)
SumCells(conf, p) == IF p < 0 THEN 0 ELSE SumRow(conf[p], 9) + SumCells(conf, p - 1)

\* C8: for predictions and labels of equal length T, cell (p, a) of the
\* confusion table is the number of positions with prediction p and label a,
\* and the cells sum to T.
C8_Confusions ==
    (pc = "eval_done" /\ Len(preds) = Len(cell_labels)) =>
        /\ \A p \in 0..9, a \in 0..9 :
              confusions[p][a] =
                  Cardinality({j \in 1..Len(preds) :
                                  preds[j] = p * UNIT /\ cell_labels[j] = a * UNIT})
        /\ SumCells(confusions, 9) = Len(preds)

\* error_rate returned for four aligned positions: label 7 predicted as 3 twice,
\* label 3 predicted as 7 never, one 7 and one 3 predicted right.
C8_Witness ==
    /\ pc = "eval_done"
    /\ Len(preds) = 4
    /\ Len(cell_labels) = 4
    /\ confusions[3][7] = 2
    /\ confusions[7][3] = 0
    /\ confusions[7][7] = 1
    /\ confusions[3][3] = 1

\* The positions where prediction and label differ.
Mismatches ==
    Cardinality({j \in 1..Min(Len(preds), Len(cell_labels)) : preds[j] # cell_labels[j]})

\* C9: the printed error rate is the number of mismatching positions over the
\* number of evaluated examples (the labels), and error_rate's percentage is
\* 100 times the same ratio.
C9_ErrorRate ==
    /\ PassCompleted =>
          /\ rate.num = Mismatches
          /\ rate.den = Len(cell_labels)
    /\ pc = "eval_done" =>
          test_error.num * Len(cell_labels) = 100 * Mismatches * test_error.den

\* C9 where the endpoint kept its contract: the ratio is over the examples.
C9_AlignedErrorRate == (faults = 0) => C9_ErrorRate

\* C10: once download_from_s3 has ended, a missing object (404) was caught and
\* logged and the function returned normally; any other client error raised.
C10_NotFoundCaught ==
    (mode = "cell" /\ pc \notin {"dl_first", "dl_try"}) =>
        /\ (\E k \in 1..Len(dl_calls) : dl_calls[k] = "404") =>
              /\ error \notin {"ClientError:404", "ClientError:403", "NameError"}
              /\ log # <<>>
        /\ (\E k \in 1..Len(dl_calls) : dl_calls[k] = "403") => pc = "raised"

(***************************************************************************)
(* The training-job submission cell and the hosting cells, run top to      *)
(* bottom; a cell that raises ends the run. The training service and the   *)
(* hosting service move on their own.                                      *)
(***************************************************************************)
Terminal == {"Completed", "Failed", "Stopped"}
Reasons == {"AlgorithmError", "InternalServerError"}
HostingCalls == {"create_model", "create_endpoint_config", "create_endpoint"}

InitJobs ==
    /\ pc = "submit_single"
    /\ IdleJobs
    /\ IdleParams
    /\ error = "none"
    /\ log = <<>>
    /\ labels = Idle /\ vectors = Idle /\ f = Idle /\ i = 0 /\ s3 = Idle
    /\ dl_calls = Idle /\ local_test = Idle
    /\ IdleEval

\* What the job cells leave alone.
notJobs == <<dataVars, f, i, s3, dl_calls, local_test, evalVars, paramVars>>

\* The training service: a running job ends, completed, failed or stopped.
JobEnds ==
    /\ \E j \in {"single", "distributed"}, t \in Terminal, r \in Reasons :
          /\ job[j] = "InProgress"
          /\ job' = [job EXCEPT ![j] = t]
          /\ failure_reason' = IF j = "distributed" /\ t = "Failed" THEN r
                               ELSE failure_reason
    /\ UNCHANGED <<pc, error, log, endpoint, sm_calls, waited, status, message, notJobs>>

\* The hosting service: the endpoint leaves Creating.
EndpointSettles ==
    /\ endpoint = "Creating"
    /\ endpoint' \in {"InService", "Failed"}
    /\ UNCHANGED <<pc, error, log, job, failure_reason, sm_calls, waited, status,
                   message, notJobs>>

\* sm.create_training_job(**single_machine_job_params)
SubmitSingle ==
    /\ pc = "submit_single"
    /\ sm_calls' = Append(sm_calls, "create_training_job:single")
    /\ \E ok \in BOOLEAN :
          /\ job' = IF ok THEN [job EXCEPT !.single = "InProgress"] ELSE job
          /\ pc' = IF ok THEN "submit_distributed" ELSE "raised"
          /\ error' = IF ok THEN error ELSE "ClientError"
    /\ UNCHANGED <<log, failure_reason, endpoint, waited, status, message, notJobs>>

\* sm.create_training_job(**distributed_job_params)
SubmitDistributed ==
    /\ pc = "submit_distributed"
    /\ sm_calls' = Append(sm_calls, "create_training_job:distributed")
    /\ \E ok \in BOOLEAN :
          /\ job' = IF ok THEN [job EXCEPT !.distributed = "InProgress"] ELSE job
          /\ pc' = IF ok THEN "describe_before" ELSE "raised"
          /\ error' = IF ok THEN error ELSE "ClientError"
    /\ UNCHANGED <<log, failure_reason, endpoint, waited, status, message, notJobs>>

\* status = sm.describe_training_job(...)['TrainingJobStatus']; print(status)
DescribeBefore ==
    /\ pc = "describe_before"
    /\ sm_calls' = Append(sm_calls, "describe_training_job:distributed")
    /\ status' = job.distributed
    /\ pc' = "wait"
    /\ UNCHANGED <<error, log, job, failure_reason, endpoint, waited, message, notJobs>>

\* The waiter's decision at a poll, by how the waiter treats a failed job (the
\* waiter belongs to the client library): it returns on Completed and Stopped,
\* returns or raises on Failed, and raises when it gives up on a running job.
WaitOutcomes(st) ==
    IF st \in {"Completed", "Stopped"} THEN {"return"}
    ELSE IF st = "Failed" THEN {"return", "raise"}
    ELSE {"raise"}

\* A slip in the job name: the wait is on the single-machine job.
WaitTargetSingle == "single"

\* wait(TrainingJobName=distributed_job_name): the job the cell waits for.
WaitTarget == "distributed"

\* sm.get_waiter('training_job_completed_or_stopped').wait(...)
Wait ==
    /\ pc = "wait"
    /\ sm_calls' = Append(sm_calls, "wait:" \o WaitTarget)
    /\ \E o \in WaitOutcomes(job[WaitTarget]) :
          /\ waited' = (o = "return")
          /\ pc' = IF o = "return" THEN "describe_after" ELSE "raised"
          /\ error' = IF o = "return" THEN error ELSE "WaiterError"
    /\ UNCHANGED <<log, job, failure_reason, endpoint, status, message, notJobs>>

\* status = sm.describe_training_job(...)['TrainingJobStatus']; print(...)
DescribeAfter ==
    /\ pc = "describe_after"
    /\ sm_calls' = Append(sm_calls, "describe_training_job:distributed")
    /\ status' = job.distributed
    /\ pc' = "check_failed"
    /\ UNCHANGED <<error, log, job, failure_reason, endpoint, waited, message, notJobs>>

\* A slip: the status is never taken for a failure.
IsFailedNever(st) == FALSE

\* A slip: a stopped job is taken for a failed one.
IsFailedOrStopped(st) == st \in {"Failed", "Stopped"}

\* if status == 'Failed':
IsFailed(st) == st = "Failed"

\* The if: message = ...['FailureReason']; print(...); raise Exception(...)
CheckFailed ==
    /\ pc = "check_failed"
    /\ IF IsFailed(status)
       THEN /\ sm_calls' = Append(sm_calls, "describe_training_job:distributed")
            /\ message' = failure_reason
            /\ log' = Append(log, "Training failed with the following error: " \o failure_reason)
            /\ pc' = "raised"
            /\ error' = "Exception:Training job failed"
       ELSE /\ pc' = "confirm"
            /\ UNCHANGED <<sm_calls, message, log, error>>
    /\ UNCHANGED <<job, failure_reason, endpoint, waited, status, notJobs>>

\* print('Single Machine:', ...); print('Distributed:', ...)
Confirm ==
    /\ pc = "confirm"
    /\ sm_calls' = sm_calls \o <<"describe_training_job:single",
                                 "describe_training_job:distributed">>
    /\ pc' = "create_model"
    /\ UNCHANGED <<error, log, job, failure_reason, endpoint, waited, status,
                   message, notJobs>>

\* info = sm.describe_training_job(...); sm.create_model(...)
CreateModel ==
    /\ pc = "create_model"
    /\ sm_calls' = sm_calls \o <<"describe_training_job:distributed", "create_model">>
    /\ \E ok \in BOOLEAN :
          /\ pc' = IF ok THEN "create_endpoint_config" ELSE "raised"
          /\ error' = IF ok THEN error ELSE "ClientError"
    /\ UNCHANGED <<log, job, failure_reason, endpoint, waited, status, message, notJobs>>

\* sm.create_endpoint_config(...)
CreateEndpointConfig ==
    /\ pc = "create_endpoint_config"
    /\ sm_calls' = Append(sm_calls, "create_endpoint_config")
    /\ \E ok \in BOOLEAN :
          /\ pc' = IF ok THEN "create_endpoint" ELSE "raised"
          /\ error' = IF ok THEN error ELSE "ClientError"
    /\ UNCHANGED <<log, job, failure_reason, endpoint, waited, status, message, notJobs>>

\* sm.create_endpoint(...)
CreateEndpoint ==
    /\ pc = "create_endpoint"
    /\ sm_calls' = Append(sm_calls, "create_endpoint")
    /\ \E ok \in BOOLEAN :
          /\ endpoint' = IF ok THEN "Creating" ELSE endpoint
          /\ pc' = IF ok THEN "describe_endpoint" ELSE "raised"
          /\ error' = IF ok THEN error ELSE "ClientError"
    /\ UNCHANGED <<log, job, failure_reason, waited, status, message, notJobs>>

\* resp = sm.describe_endpoint(...); status = resp['EndpointStatus']
DescribeEndpoint ==
    /\ pc = "describe_endpoint"
    /\ sm_calls' = Append(sm_calls, "describe_endpoint")
    /\ status' = endpoint
    /\ pc' = "poll"
    /\ UNCHANGED <<error, log, job, failure_reason, endpoint, waited, message, notJobs>>

\* A slip in the loop's test: a failed endpoint is polled on and on.
StillCreatingOrFailed(st) == st \in {"Creating", "Failed"}

\* while status=='Creating':
StillCreating(st) == st = "Creating"

\* while status=='Creating': sleep; describe again. The polls are not logged in
\* sm_calls, which would grow without bound.
PollAgain ==
    /\ pc = "poll"
    /\ StillCreating(status)
    /\ status' = endpoint
    /\ UNCHANGED <<pc, error, log, job, failure_reason, endpoint, sm_calls, waited,
                   message, notJobs>>

\* The loop ends; the cell prints and the run goes on to the inference cells.
PollExit ==
    /\ pc = "poll"
    /\ ~StillCreating(status)
    /\ pc' = "inference"
    /\ UNCHANGED <<error, log, job, failure_reason, endpoint, sm_calls, waited,
                   status, message, notJobs>>

NextJobs ==
    \/ JobEnds
    \/ EndpointSettles
    \/ SubmitSingle
    \/ SubmitDistributed
    \/ DescribeBefore
    \/ Wait
    \/ DescribeAfter
    \/ CheckFailed
    \/ Confirm
    \/ CreateModel
    \/ CreateEndpointConfig
    \/ CreateEndpoint
    \/ DescribeEndpoint
    \/ PollAgain
    \/ PollExit

SpecJobs == InitJobs /\ [][NextJobs]_vars

\* The kernel goes on running the loop of the endpoint cell, and the hosting
\* service does not leave an endpoint in Creating for ever.
SpecJobsFair ==
    /\ SpecJobs
    /\ WF_vars(PollAgain)
    /\ WF_vars(PollExit)
    /\ WF_vars(EndpointSettles)

\* C6: in a run where the wait returned on a Failed distributed job, once the
\* cell's if is past, the status read is Failed, the cell took the remote FailureReason into message, printed it and
\* raised; and while the distributed job is Failed no hosting call has been
\* issued.
C6_FailedAborts ==
    /\ (waited /\ job.distributed = "Failed"
           /\ pc \notin {"describe_after", "check_failed"}) =>
          /\ pc = "raised"
          /\ status = "Failed"
          /\ error = "Exception:Training job failed"
          /\ message = failure_reason
          /\ message \in Reasons
          /\ log = <<"Training failed with the following error: " \o failure_reason>>
    /\ job.distributed = "Failed" =>
          \A k \in 1..Len(sm_calls) : sm_calls[k] \notin HostingCalls

\* The wait returned on a failed job and the cell has raised with its reason.
C6_Witness ==
    /\ waited
    /\ job.distributed = "Failed"
    /\ pc = "raised"
    /\ error = "Exception:Training job failed"
    /\ message = "AlgorithmError"

\* The calls that read or await the state of a training job.
JobPolls ==
    {"describe_training_job:single", "describe_training_job:distributed",
     "wait:single", "wait:distributed"}

\* C13: both create_training_job calls are issued, the single-machine one
\* first, before any describe or wait; the only wait is on the distributed job,
\* and it has returned only when that job was Completed, Failed or Stopped,
\* never while it was still in progress.
C13_SubmitThenWait ==
    /\ \A k \in 1..Len(sm_calls) :
          /\ (sm_calls[k] = "create_training_job:single" <=> k = 1)
          /\ (sm_calls[k] = "create_training_job:distributed" => k = 2)
          /\ sm_calls[k] \in JobPolls =>
                /\ k >= 3
                /\ sm_calls[2] = "create_training_job:distributed"
          /\ sm_calls[k] \in {"wait:single", "wait:distributed"} =>
                /\ sm_calls[k] = "wait:distributed"
                /\ \A j \in 1..Len(sm_calls) : sm_calls[j] = sm_calls[k] => j = k
    /\ pc = "wait" => ~waited
    /\ waited => job.distributed \in Terminal
    /\ (pc = "describe_after") => (waited /\ job.distributed \in Terminal)

\* The wait has returned on a stopped distributed job while the single-machine
\* job is still in progress.
C13_Witness ==
    /\ pc = "describe_after"
    /\ waited
    /\ job.distributed = "Stopped"
    /\ job.single = "InProgress"
    /\ sm_calls[Len(sm_calls)] = "wait:distributed"

\* The run has reached the create_model cell.
HostingEntered ==
    \/ pc \in {"create_model", "create_endpoint_config", "create_endpoint",
               "describe_endpoint", "poll", "inference"}
    \/ \E k \in 1..Len(sm_calls) : sm_calls[k] = "create_model"

\* Both create_training_job calls returned, the wait returned, and the
\* distributed job is not Failed.
TrainingPassed ==
    /\ job.single # "NotCreated"
    /\ job.distributed # "NotCreated"
    /\ waited
    /\ job.distributed # "Failed"

\* C16: the run enters the hosting stage if and only if both
\* create_training_job calls returned without error and the distributed job's
\* status after the wait is not Failed: a Stopped job goes on to hosting as a
\* Completed one does, and no status of the single-machine job, Failed
\* included, keeps the run from hosting.
C16_HostingGate ==
    /\ HostingEntered => TrainingPassed
    /\ (TrainingPassed /\ pc \notin {"describe_after", "check_failed", "confirm"})
          => HostingEntered
    /\ (HostingEntered /\ pc # "create_model") =>
          \E k \in 1..Len(sm_calls) : sm_calls[k] = "create_model"

\* create_model was called after a Stopped distributed job and a Failed
\* single-machine job.
C16_Witness ==
    /\ pc = "create_endpoint_config"
    /\ job.distributed = "Stopped"
    /\ job.single = "Failed"
    /\ sm_calls[Len(sm_calls)] = "create_model"

\* C17: the loop of the endpoint cell stays in the loop while the status it
\* read is Creating and leaves it at the first status read that is not, without
\* another poll; if the endpoint leaves Creating the loop ends; and from the
\* loop the run goes on to the inference cells with no exception, whatever the
\* status it left with.
C17_PollLoop ==
    /\ [][(pc = "poll" /\ status = "Creating") => pc' = "poll"]_vars
    /\ [][(pc = "poll" /\ status # "Creating") => status' = status]_vars
    /\ [][(pc = "poll" /\ pc' # "poll") =>
             (status # "Creating" /\ pc' = "inference" /\ error' = "none")]_vars
    /\ (pc = "poll") ~> (pc = "inference")

\* The loop was left with the status Failed and the run is at the inference
\* cells with no exception.
C17_Witness ==
    /\ pc = "inference"
    /\ status = "Failed"
    /\ endpoint = "Failed"
    /\ error = "none"

(***************************************************************************)
(* The training job descriptors. Python dicts and lists are objects of the *)
(* heap: a variable holds the address of its object, and a dict holds the  *)
(* addresses of the dicts and lists nested in it. A list is an object      *)
(* whose keys are its indices, "0", "1", ...                               *)
(***************************************************************************)
Str(text) == [kind |-> "str", text |-> text]
Ref(a) == [kind |-> "ref", a |-> a]

\* prefix = 'sagemaker/DEMO-xgboost-multiclass-classification'
prefix == "sagemaker/DEMO-xgboost-multiclass-classification"

\* One channel of InputDataConfig, its DataSource at address a and its
\* S3DataSource at address a + 1.
Channel(name, a) ==
    [ChannelName |-> Str(name), DataSource |-> Ref(a),
     ContentType |-> Str("libsvm"), CompressionType |-> Str("None")]

S3DataSource(bp, folder) ==
    [S3DataType |-> Str("S3Prefix"),
     S3Uri |-> Str(bp \o "/" \o prefix \o folder),
     S3DataDistributionType |-> Str("FullyReplicated")]

\* The heap after common_training_params = {...}: the dict at address 1.
Template(img, arn, bp) ==
    << [AlgorithmSpecification |-> Ref(2), RoleArn |-> Str(arn),
        OutputDataConfig |-> Ref(3), ResourceConfig |-> Ref(4),
        HyperParameters |-> Ref(5), StoppingCondition |-> Ref(6),
        InputDataConfig |-> Ref(7)],
       [TrainingImage |-> Str(img), TrainingInputMode |-> Str("File")],
       [S3OutputPath |-> Str(bp \o "/" \o prefix \o "/xgboost")],
       [InstanceCount |-> PyInt(1), InstanceType |-> Str("ml.m4.10xlarge"),
        VolumeSizeInGB |-> PyInt(5)],
       [max_depth |-> Str("5"), eta |-> Str("0.2"), gamma |-> Str("4"),
        min_child_weight |-> Str("6"), silent |-> Str("0"),
        objective |-> Str("multi:softmax"), num_class |-> Str("10"),
        num_round |-> Str("10")],
       [MaxRuntimeInSeconds |-> PyInt(86400)],
       ("0" :> Ref(8)) @@ ("1" :> Ref(11)),
       Channel("train", 9),
       [S3DataSource |-> Ref(10)],
       S3DataSource(bp, "/train/"),
       Channel("validation", 12),
       [S3DataSource |-> Ref(13)],
       S3DataSource(bp, "/validation/") >>

\* copy.copy in the place of copy.deepcopy: the nested objects are shared.
ShallowCopy(h, a) == [heap |-> Append(h, h[a]), addr |-> Len(h) + 1]

RECURSIVE DeepCopy(_, _), CopyItems(_, _, _, _)
\* The items of the object src copied one by one into the heap h; done is the
\* set of the <<key, value>> items copied so far.
CopyItems(h, src, keys, done) ==
    IF keys = {} THEN [heap |-> h, items |-> done]
    ELSE LET k == CHOOSE x \in keys : TRUE
             v == src[k]
         IN IF v.kind = "ref"
            THEN LET c == DeepCopy(h, v.a)
                 IN CopyItems(c.heap, src, keys \ {k}, done \cup {<<k, Ref(c.addr)>>})
            ELSE CopyItems(h, src, keys \ {k}, done \cup {<<k, v>>})

\* copy.deepcopy(x) of the object at address a: a new object whose nested
\* objects are new copies too (no object of the template is nested twice).
DeepCopy(h, a) ==
    LET r == CopyItems(h, h[a], DOMAIN h[a], {})
        obj == [k \in DOMAIN h[a] |-> (CHOOSE it \in r.items : it[1] = k)[2]]
    IN [heap |-> Append(r.heap, obj), addr |-> Len(r.heap) + 1]

RECURSIVE Resolve(_, _, _)
\* The address of the object d[k1][k2]...[kn-1] holds, d at address a.
Resolve(h, a, path) ==
    IF Len(path) = 1 THEN a ELSE Resolve(h, h[a][Head(path)].a, Tail(path))

\* d[k1]...[kn] = v
SetItem(h, a, path, v) ==
    LET o == Resolve(h, a, path)
        k == path[Len(path)]
    IN [h EXCEPT ![o] = [x \in (DOMAIN h[o]) \cup {k} |-> IF x = k THEN v ELSE h[o][x]]]

RECURSIVE SetItems(_, _, _)
\* The assignments of a cell, in their order.
SetItems(h, a, edits) ==
    IF edits = <<>> THEN h
    ELSE SetItems(SetItem(h, a, Head(edits)[1], Head(edits)[2]), a, Tail(edits))

DistributionType(channel) ==
    <<"InputDataConfig", channel, "DataSource", "S3DataSource", "S3DataDistributionType">>

\* The assignments to single_machine_job_params.
SingleEdits(name, bp) ==
    << <<<<"TrainingJobName">>, Str(name)>>,
       <<<<"OutputDataConfig", "S3OutputPath">>, Str(bp \o "/" \o prefix \o "/xgboost-single")>>,
       <<<<"ResourceConfig", "InstanceCount">>, PyInt(1)>> >>

\* A slip: the validation channel keeps the template's distribution type.
DistributedEditsTrainOnly(name, bp) ==
    << <<<<"TrainingJobName">>, Str(name)>>,
       <<<<"OutputDataConfig", "S3OutputPath">>, Str(bp \o "/" \o prefix \o "/xgboost-distributed")>>,
       <<<<"ResourceConfig", "InstanceCount">>, PyInt(2)>>,
       <<DistributionType("0"), Str("ShardedByS3Key")>> >>

\* The assignments to distributed_job_params.
DistributedEdits(name, bp) ==
    << <<<<"TrainingJobName">>, Str(name)>>,
       <<<<"OutputDataConfig", "S3OutputPath">>, Str(bp \o "/" \o prefix \o "/xgboost-distributed")>>,
       <<<<"ResourceConfig", "InstanceCount">>, PyInt(2)>>,
       <<DistributionType("0"), Str("ShardedByS3Key")>>,
       <<DistributionType("1"), Str("ShardedByS3Key")>> >>

\* strftime("%Y-%m-%d-%H-%M-%S", gmtime()) at second c of the session.
Stamp(c) == "2018-07-04-10-30-0" \o DigitChar(c)

Regions == {"us-east-1", "us-west-2"}
Buckets == {"bucket-a", "bucket-b"}
Roles == {"arn:aws:iam::1:role/a", "arn:aws:iam::1:role/b"}

\* The session after the cell of common_training_params has run, in some
\* region, with some bucket and role.
InitParams ==
    /\ pc = "params"
    /\ \E region \in Regions, bucket \in Buckets :
          /\ container = "registry/" \o region \o "/xgboost:latest"
          /\ bucket_path = "https://s3-" \o region \o ".amazonaws.com/" \o bucket
    /\ role \in Roles
    /\ heap = Template(container, role, bucket_path)
    /\ common_training_params = 1
    /\ clock = 0
    /\ single_machine_job_name = "none" /\ single_machine_job_params = 0
    /\ distributed_job_name = "none" /\ distributed_job_params = 0
    /\ labels = Idle /\ vectors = Idle /\ f = Idle /\ i = 0 /\ s3 = Idle
    /\ error = "none"
    /\ IdleDownload
    /\ IdleEval
    /\ IdleJobs

\* What the descriptor cells leave alone.
notParams == <<pc, dataVars, f, i, s3, error, dlVars, evalVars, jobVars>>

\* A second goes by.
Tick ==
    /\ pc = "params"
    /\ clock < MaxStamps
    /\ clock' = clock + 1
    /\ UNCHANGED <<heap, role, container, bucket_path, common_training_params,
                   single_machine_job_name, single_machine_job_params,
                   distributed_job_name, distributed_job_params, notParams>>

\* The cell of single_machine_job_params.
BuildSingle ==
    /\ pc = "params"
    /\ single_machine_job_params = 0
    /\ single_machine_job_name' = "DEMO-xgboost-classification" \o Stamp(clock)
    /\ LET c == DeepCopy(heap, common_training_params)
       IN /\ single_machine_job_params' = c.addr
          /\ heap' = SetItems(c.heap, c.addr,
                              SingleEdits(single_machine_job_name', bucket_path))
    /\ UNCHANGED <<clock, role, container, bucket_path, common_training_params,
                   distributed_job_name, distributed_job_params, notParams>>

\* The cell of distributed_job_params.
BuildDistributed ==
    /\ pc = "params"
    /\ distributed_job_params = 0
    /\ distributed_job_name' = "DEMO-xgboost-distrib-classification" \o Stamp(clock)
    /\ LET c == DeepCopy(heap, common_training_params)
       IN /\ distributed_job_params' = c.addr
          /\ heap' = SetItems(c.heap, c.addr,
                              DistributedEdits(distributed_job_name', bucket_path))
    /\ UNCHANGED <<clock, role, container, bucket_path, common_training_params,
                   single_machine_job_name, single_machine_job_params, notParams>>

NextParams ==
    \/ Tick
    \/ BuildSingle
    \/ BuildDistributed

SpecParams == InitParams /\ [][NextParams]_vars

RECURSIVE Leaves(_, _, _)
\* The <<path, value>> pairs of the values that are no dict and no list, in
\* the object at address a and in the objects nested in it.
Leaves(h, a, at) ==
    UNION { IF h[a][k].kind = "ref"
            THEN Leaves(h, h[a][k].a, Append(at, k))
            ELSE {<<Append(at, k), h[a][k]>>} : k \in DOMAIN h[a] }

RECURSIVE Objects(_, _)
\* The addresses of the object at a and of the objects nested in it.
Objects(h, a) ==
    {a} \cup UNION { IF h[a][k].kind = "ref" THEN Objects(h, h[a][k].a) ELSE {}
                     : k \in DOMAIN h[a] }

SingleLeaves == Leaves(heap, single_machine_job_params, <<>>)
DistributedLeaves == Leaves(heap, distributed_job_params, <<>>)
BothBuilt == single_machine_job_params # 0 /\ distributed_job_params # 0

\* The paths at which the two descriptors do not hold the same value.
Differing == {it[1] : it \in (SingleLeaves \ DistributedLeaves)
                               \cup (DistributedLeaves \ SingleLeaves)}

InstanceCountPath == <<"ResourceConfig", "InstanceCount">>

\* Instance count 1 against 2, FullyReplicated against ShardedByS3Key on both
\* channels.
CountAndModeDiffer ==
    /\ <<InstanceCountPath, PyInt(1)>> \in SingleLeaves
    /\ <<InstanceCountPath, PyInt(2)>> \in DistributedLeaves
    /\ \A ch \in {"0", "1"} :
          /\ <<DistributionType(ch), Str("FullyReplicated")>> \in SingleLeaves
          /\ <<DistributionType(ch), Str("ShardedByS3Key")>> \in DistributedLeaves

\* C11 as stated: the two descriptors hold the same value in every field but
\* the instance count (1 and 2) and the distribution type of the channels
\* (FullyReplicated and ShardedByS3Key).
C11_OnlyCountAndMode ==
    BothBuilt =>
        /\ Differing = {InstanceCountPath, DistributionType("0"), DistributionType("1")}
        /\ CountAndModeDiffer

\* C11: the two descriptors hold the same value in every field but the job
\* name, the output path (.../xgboost-single and .../xgboost-distributed), the
\* instance count (1 and 2) and the distribution type of both channels
\* (FullyReplicated and ShardedByS3Key).
C11_DescriptorsDiffer ==
    BothBuilt =>
        /\ Differing = {<<"TrainingJobName">>, <<"OutputDataConfig", "S3OutputPath">>,
                        InstanceCountPath, DistributionType("0"), DistributionType("1")}
        /\ CountAndModeDiffer
        /\ <<<<"TrainingJobName">>, Str(single_machine_job_name)>> \in SingleLeaves
        /\ <<<<"TrainingJobName">>, Str(distributed_job_name)>> \in DistributedLeaves
        /\ <<<<"OutputDataConfig", "S3OutputPath">>,
             Str(bucket_path \o "/" \o prefix \o "/xgboost-single")>> \in SingleLeaves
        /\ <<<<"OutputDataConfig", "S3OutputPath">>,
             Str(bucket_path \o "/" \o prefix \o "/xgboost-distributed")>> \in DistributedLeaves
        /\ Cardinality(SingleLeaves) = Cardinality(DistributedLeaves)
        /\ \A it \in SingleLeaves :
              it[1] \notin Differing =>
                  (it[1] = <<"TrainingJobName">>
                     \/ it \in Leaves(heap, common_training_params, <<>>))

\* Both descriptors are built, in the same second.
C11_Witness ==
    /\ BothBuilt
    /\ single_machine_job_name = "DEMO-xgboost-classification" \o Stamp(1)
    /\ distributed_job_name = "DEMO-xgboost-distrib-classification" \o Stamp(1)
    /\ <<<<"HyperParameters", "num_class">>, Str("10")>>
          \in SingleLeaves \cap DistributedLeaves

\* C18: whichever descriptors are built, in whichever order, the template is
\* as it was written (instance count 1, FullyReplicated on both channels, the
\* output path .../xgboost), the single-machine descriptor shows nothing of
\* what was assigned to the distributed one (its instance count is 1, its
\* channels FullyReplicated), and the three share no object.
C18_TemplateUntouched ==
    LET common == Leaves(heap, common_training_params, <<>>)
    IN /\ common = Leaves(Template(container, role, bucket_path), 1, <<>>)
       /\ <<InstanceCountPath, PyInt(1)>> \in common
       /\ <<DistributionType("0"), Str("FullyReplicated")>> \in common
       /\ <<DistributionType("1"), Str("FullyReplicated")>> \in common
       /\ <<<<"OutputDataConfig", "S3OutputPath">>,
            Str(bucket_path \o "/" \o prefix \o "/xgboost")>> \in common
       /\ single_machine_job_params # 0 =>
             /\ <<InstanceCountPath, PyInt(1)>> \in SingleLeaves
             /\ <<DistributionType("0"), Str("FullyReplicated")>> \in SingleLeaves
             /\ <<DistributionType("1"), Str("FullyReplicated")>> \in SingleLeaves
             /\ Objects(heap, single_machine_job_params)
                  \cap Objects(heap, common_training_params) = {}
       /\ distributed_job_params # 0 =>
             Objects(heap, distributed_job_params)
               \cap Objects(heap, common_training_params) = {}
       /\ BothBuilt =>
             Objects(heap, single_machine_job_params)
               \cap Objects(heap, distributed_job_params) = {}

\* Both descriptors are built, the distributed one first.
C18_Witness ==
    /\ BothBuilt
    /\ distributed_job_params < single_machine_job_params
    /\ <<InstanceCountPath, PyInt(2)>> \in DistributedLeaves
    /\ <<DistributionType("1"), Str("ShardedByS3Key")>> \in DistributedLeaves

(***************************************************************************)
(* The whole notebook: any of its parts, run from its start.               *)
(***************************************************************************)
Init == InitCodec \/ InitUpload \/ InitEval \/ InitJobs \/ InitParams

Next == NextCodec \/ NextUpload \/ NextEval \/ NextJobs \/ NextParams

Spec == Init /\ [][Next]_vars

====
